---------------------------- MODULE Spec2Model ----------------------------
(***************************************************************************)
(* A model of the BigInt class of src/BigInt/main.cpp: an arbitrary        *)
(* precision signed integer stored as a vector of fixed-width limbs        *)
(* ("sections"), least-significant limb first, plus a sign flag.           *)
(*                                                                         *)
(* The source stores limbs in 32 bits and computes in 64 bits.  Every      *)
(* routine is written against STORAGE_BITS only, so the model keeps the    *)
(* code and checks it at a reduced limb width (TLC integers are 32-bit):   *)
(* STORAGE_BITS is a bound of the model, not the source's value.           *)
(***************************************************************************)
EXTENDS Integers, Sequences, FiniteSets

VARIABLES x, y, call

vars == <<x, y, call>>

(***************************************************************************)
(* Bounds of the model.                                                    *)
(***************************************************************************)
\* Limb width in bits (the source: 32).  At least 4, so that the decimal
\* base 10 is a single limb as in the source.
STORAGE_BITS == 4

\* Longest digit run of an input string.
MaxDigits == 3

\* Largest magnitude an input string denotes, and the largest magnitude on
\* which a further operation is started.
MaxValue == 260

(***************************************************************************)
(* namespace storage                                                       *)
(***************************************************************************)
RECURSIVE Pow(_, _)
Pow(b, e) == IF e = 0 THEN 1 ELSE b * Pow(b, e - 1)

\* 1L << STORAGE_BITS: the number of values of a smallInt_t.
WRAP == Pow(2, STORAGE_BITS)

\* The number of values of a bigInt_t (twice the width).
WRAP2 == WRAP * WRAP

LOW_BITMASK == WRAP - 1

MAX == WRAP - 1

smallInt_t == 0 .. MAX

\* (smallInt_t)v : truncation to the storage width.
toSmall(v) == v % WRAP

\* (bigInt_t)v : truncation to the operation width.
toBig(v) == v % WRAP2

fromIntParts(high, low) == toBig(high * WRAP + low)

storeIntParts(v) == [high |-> toSmall(v \div WRAP), low |-> v % (LOW_BITMASK + 1)]

(***************************************************************************)
(* Characters and strings.  A string is a sequence of characters; reading  *)
(* at its end gives the terminating NUL of a C string.                     *)
(***************************************************************************)
NUL == "NUL"

DigitChars == <<"0", "1", "2", "3", "4", "5", "6", "7", "8", "9">>

CharAt(s, i) == IF i <= Len(s) THEN s[i] ELSE NUL

\* !(c < '0' || c > '9')
IsDigit(c) == \E d \in 1 .. 10 : DigitChars[d] = c

\* c - '0'
DigitOf(c) == (CHOOSE d \in 1 .. 10 : DigitChars[d] = c) - 1

\* '0' + rem
CharOfDigit(rem) == DigitChars[rem + 1]

(***************************************************************************)
(* class BigInt: a value is [sections, sign].                              *)
(***************************************************************************)
BigInt(sections, sign) == [sections |-> sections, sign |-> sign]

\* BigInt () {}
Default == BigInt(<<>>, FALSE)

RECURSIVE multiplyAddLoop(_, _, _, _)
multiplyAddLoop(sections, base, carry, i) ==
    IF i > Len(sections)
    THEN [sections |-> sections, carry |-> carry]
    ELSE LET r == toBig(toBig(sections[i]) * toBig(base) + toBig(carry))
             p == storeIntParts(r)
         IN  multiplyAddLoop([sections EXCEPT ![i] = p.low], base, p.high, i + 1)

\* Faulty variant of multiplyAdd: the final limb is appended only for a non-zero
\* carry, so an empty value stays empty.
multiplyAdd_noEmpty(sections, base, carry) ==
    LET l == multiplyAddLoop(sections, base, carry, 1)
    IN  IF l.carry # 0 THEN Append(l.sections, l.carry) ELSE l.sections

\* multiplyAdd (base, carry) on the limbs of *this.
multiplyAdd(sections, base, carry) ==
    LET l == multiplyAddLoop(sections, base, carry, 1)
    IN  IF l.carry # 0 \/ Len(l.sections) = 0
        THEN Append(l.sections, l.carry)
        ELSE l.sections

\* operator += (smallInt_t v)
scalarAdd(sections, v) == multiplyAdd(sections, 1, v)

\* operator *= (smallInt_t v)
scalarMul(sections, v) == multiplyAdd(sections, v, 0)

\* Faulty variant of pushDecimalDigit: the arguments of multiplyAdd swapped.
pushDecimalDigit_swapped(sections, digit) ==
    IF Len(sections) = 0
    THEN Append(sections, digit)
    ELSE multiplyAdd(sections, digit, 10)

pushDecimalDigit(sections, digit) ==
    IF Len(sections) = 0
    THEN Append(sections, digit)
    ELSE multiplyAdd(sections, 10, digit)

RECURSIVE pushDigits(_, _, _)
\* while (!(s[0] < '0' || s[0] > '9')) pushDecimalDigit(s[0] - '0'), ++s;
pushDigits(sections, s, p) ==
    IF IsDigit(CharAt(s, p))
    THEN pushDigits(pushDecimalDigit(sections, DigitOf(CharAt(s, p))), s, p + 1)
    ELSE sections

\* initFromString on the object obj: the object afterwards, and whether the
\* call threw.
initFromString(obj, s) ==
    LET c0 == CharAt(s, 1)
        p  == IF c0 = "-" \/ c0 = "+" THEN 2 ELSE 1
        sg == IF c0 = "-" THEN TRUE ELSE IF c0 = "+" THEN FALSE ELSE obj.sign
    IN  IF ~IsDigit(CharAt(s, p))
        THEN [obj |-> BigInt(<<>>, sg), threw |-> TRUE]
        ELSE [obj |-> BigInt(pushDigits(<<>>, s, p), sg), threw |-> FALSE]

\* BigInt (const std::string& s)
fromString(s) == initFromString(Default, s).obj

RECURSIVE scalarDivLoop_noRem(_, _, _, _)
\* Faulty variant of scalarDivLoop: the remainder is not carried into the next limb.
scalarDivLoop_noRem(sections, d, rem, i) ==
    IF i = 0
    THEN [sections |-> sections, rem |-> rem]
    ELSE LET n == fromIntParts(0, sections[i])
         IN  scalarDivLoop_noRem([sections EXCEPT ![i] = toSmall(n \div toBig(d))],
                                 d, toSmall(n % toBig(d)), i - 1)

RECURSIVE scalarDivLoop(_, _, _, _)
scalarDivLoop(sections, d, rem, i) ==
    IF i = 0
    THEN [sections |-> sections, rem |-> rem]
    ELSE LET n == fromIntParts(rem, sections[i])
         IN  scalarDivLoop([sections EXCEPT ![i] = toSmall(n \div toBig(d))],
                           d, toSmall(n % toBig(d)), i - 1)

\* Faulty variant of popZeros: an if in place of the while, at most one limb
\* is removed.
popZeros_once(sections) ==
    IF Len(sections) > 0 /\ sections[Len(sections)] = 0
    THEN SubSeq(sections, 1, Len(sections) - 1)
    ELSE sections

RECURSIVE popZeros(_)
\* while (sections.size() > 0 && sections.back() == 0) sections.pop_back();
popZeros(sections) ==
    IF Len(sections) > 0 /\ sections[Len(sections)] = 0
    THEN popZeros(SubSeq(sections, 1, Len(sections) - 1))
    ELSE sections

\* scalarDiv (d, rem), d # 0: the limbs afterwards and the remainder.
scalarDiv(sections, d) ==
    LET l == scalarDivLoop(sections, d, 0, Len(sections))
    IN  [sections |-> popZeros(l.sections), rem |-> l.rem]

\* Faulty variant of Reversed: the digits are left in the order written.
Reversed_none(s) == s

RECURSIVE Reversed(_)
\* The swap loop of writeString over the digits written.
Reversed(s) == IF Len(s) = 0 THEN <<>> ELSE Append(Reversed(Tail(s)), Head(s))

RECURSIVE writeDigits(_)
\* while (temp.sections.size()) { temp.scalarDiv(10, rem); str.push_back('0' + rem); }
writeDigits(sections) ==
    IF Len(sections) = 0
    THEN <<>>
    ELSE LET q == scalarDiv(sections, 10)
         IN  <<CharOfDigit(q.rem)>> \o writeDigits(q.sections)

\* writeString into an empty buffer (toString), without the final NUL.
\* temp is the copy of *this that the assertion after "BigInt temp { *this }"
\* requires (temp.sections.size() == sections.size()).
writeString(obj) ==
    LET str == IF obj.sign THEN <<"-">> ELSE <<>>
    IN  IF Len(obj.sections) = 0
        THEN Append(str, "0")
        ELSE str \o Reversed(writeDigits(obj.sections))

\* operator bool ()
toBool(obj) ==
    Len(obj.sections) # 0 /\ ~(Len(obj.sections) = 1 /\ obj.sections[1] = 0)

Min(a, b) == IF a < b THEN a ELSE b

RECURSIVE cmpLoop(_, _, _)
\* for (auto i = 0; i < std::min(...); ++i): the source's index i is i - 1 here.
cmpLoop(a, b, i) ==
    IF i > Min(Len(a.sections), Len(b.sections))
    THEN 0
    ELSE IF a.sections[i] < b.sections[i] THEN (IF a.sign THEN 1 ELSE -1)
    ELSE IF a.sections[i] > b.sections[i] THEN (IF a.sign THEN -1 ELSE 1)
    ELSE cmpLoop(a, b, i + 1)

\* Faulty variant of cmp: with this zero, the result is -1 for a negative other.
cmp_signOfOther(a, b) ==
    IF ~toBool(a) THEN (IF ~toBool(b) THEN 0 ELSE IF b.sign THEN -1 ELSE 1)
    ELSE IF ~toBool(b) THEN (IF a.sign THEN -1 ELSE 1)
    ELSE IF a.sign # b.sign THEN (IF a.sign THEN -1 ELSE 1)
    ELSE IF Len(a.sections) # Len(b.sections)
         THEN (IF Len(a.sections) < Len(b.sections) THEN -2 ELSE 2)
    ELSE cmpLoop(a, b, 1)

\* this->cmp(other)
cmp(a, b) ==
    IF ~toBool(a) THEN (IF ~toBool(b) THEN 0 ELSE IF b.sign THEN 1 ELSE -1)
    ELSE IF ~toBool(b) THEN (IF a.sign THEN -1 ELSE 1)
    ELSE IF a.sign # b.sign THEN (IF a.sign THEN -1 ELSE 1)
    ELSE IF Len(a.sections) # Len(b.sections)
         THEN (IF Len(a.sections) < Len(b.sections) THEN -2 ELSE 2)
    ELSE cmpLoop(a, b, 1)

\* operator <=
lessEq(a, b) == cmp(a, b) <= 0

\* operator ==
equals(a, b) == cmp(a, b) = 0


RECURSIVE Zeros_oneShort(_)
\* Faulty variant of Zeros: the buffer is one limb short.
Zeros_oneShort(n) == IF n <= 1 THEN <<>> ELSE Append(Zeros_oneShort(n - 1), 0)

RECURSIVE Zeros(_)
\* resize(n, 0) of an empty vector.
Zeros(n) == IF n = 0 THEN <<>> ELSE Append(Zeros(n - 1), 0)

\* Faulty variant of mulCarry: the carry is added to the next limb only, the carry
\* out of that addition is dropped.
mulCarry_noRipple(r, carry, k) ==
    IF carry = 0 THEN [r |-> r, oob |-> FALSE]
    ELSE IF k - 1 > Len(r) THEN [r |-> Append(r, carry), oob |-> FALSE]
    ELSE IF k > Len(r) THEN [r |-> r, oob |-> TRUE]
    ELSE [r |-> [r EXCEPT ![k] = storeIntParts(toBig(toBig(r[k]) + toBig(carry))).low],
          oob |-> FALSE]

RECURSIVE mulCarry(_, _, _)
\* for (auto k = i+j+1; carry != 0; ++k): the source's index k is k - 1 here.
\* oob: the loop reached r.sections[r.sections.size()], one past the end.
mulCarry(r, carry, k) ==
    IF carry = 0 THEN [r |-> r, oob |-> FALSE]
    ELSE IF k - 1 > Len(r) THEN [r |-> Append(r, carry), oob |-> FALSE]
    ELSE IF k > Len(r) THEN [r |-> r, oob |-> TRUE]
    ELSE LET s == toBig(toBig(r[k]) + toBig(carry))
             p == storeIntParts(s)
         IN  mulCarry([r EXCEPT ![k] = p.low], p.high, k + 1)

RECURSIVE mulLoop(_, _, _, _, _)
\* The double loop of operator *: the source's indices i, j are i - 1, j - 1.
mulLoop(a, v, r, i, j) ==
    IF i > Len(a) THEN [r |-> r, oob |-> FALSE]
    ELSE IF j > Len(v) THEN mulLoop(a, v, r, i + 1, 1)
    ELSE LET p  == toBig(toBig(a[i]) * toBig(v[j]) + toBig(r[i + j - 1]))
             sp == storeIntParts(p)
             c  == mulCarry([r EXCEPT ![i + j - 1] = sp.low], sp.high, i + j)
         IN  IF c.oob THEN c ELSE mulLoop(a, v, c.r, i, j + 1)

\* operator * (const BigInt & v): the object afterwards (this), the value
\* returned (r), and whether the carry loop left the result buffer (oob).
mul(a, v) ==
    IF ~toBool(a) \/ ~toBool(v)
    THEN [this |-> BigInt(<<>>, a.sign), r |-> BigInt(<<>>, a.sign), oob |-> FALSE]
    ELSE LET m == mulLoop(a.sections, v.sections,
                          Zeros(Len(a.sections) + Len(v.sections)), 1, 1)
         IN  [this |-> a, r |-> BigInt(m.r, Default.sign), oob |-> m.oob]

(***************************************************************************)
(* Reference arithmetic on unbounded integers, used to state the claims.   *)
(***************************************************************************)
RECURSIVE Value(_)
\* The integer a limb sequence represents, least-significant limb first.
Value(sections) ==
    IF Len(sections) = 0 THEN 0
    ELSE sections[1] + WRAP * Value(Tail(sections))

RECURSIVE ToLimbs(_)
\* The base-2^W digits of n, least-significant first; 0 is <<0>>.
ToLimbs(n) == IF n < WRAP THEN <<n>> ELSE <<n % WRAP>> \o ToLimbs(n \div WRAP)

RECURSIVE DecValue(_)
\* The integer a run of decimal digit characters denotes.
DecValue(ds) ==
    IF Len(ds) = 0 THEN 0
    ELSE DigitOf(ds[1]) * Pow(10, Len(ds) - 1) + DecValue(Tail(ds))

\* The digit run of a signed decimal string.
DigitRun(s) == IF s[1] = "-" \/ s[1] = "+" THEN Tail(s) ELSE s

RECURSIVE StripZeros(_)
\* A digit run without its leading zeros, an all-zero run being "0".
StripZeros(ds) ==
    IF Len(ds) > 1 /\ ds[1] = "0" THEN StripZeros(Tail(ds)) ELSE ds

(***************************************************************************)
(* Inputs.                                                                 *)
(***************************************************************************)
DigitSet == {DigitChars[d] : d \in 1 .. 10}

DigitRuns ==
    {ds \in UNION {[1 .. n -> DigitSet] : n \in 1 .. MaxDigits} :
        DecValue(ds) <= MaxValue}

\* The valid decimal strings: an optional sign, then a digit run.
Strings == {sg \o ds : sg \in {<<>>, <<"+">>, <<"-">>}, ds \in DigitRuns}

\* Scalar arguments: the extremes of a limb, the decimal base, one.
Scalars == {0, 1, 10, MAX}

\* Divisors of scalarDiv.
Divisors == {1, 2, 10, MAX}

\* Magnitudes of the second object of the binary operations: zero, one limb,
\* two limbs with equal and with crossed limbs, and all limbs MAX.
OperandValues ==
    {v \in {0, 1, 2, MAX, WRAP, WRAP + 1, WRAP + 2, 2 * WRAP + 1, WRAP * MAX + MAX} :
        v <= MaxValue}

\* Their decimal strings, with or without "-", without leading zeros.
OperandStrings ==
    {t \in Strings : /\ t[1] # "+"
                     /\ StripZeros(DigitRun(t)) = DigitRun(t)
                     /\ DecValue(DigitRun(t)) \in OperandValues}

InRange(obj) == Value(obj.sections) <= MaxValue

\* Arguments of initFromString on an existing object: the empty string, a
\* bare sign, a sign before a non-digit, an unsigned digit, and a signed
\* digit before a non-digit.
ParseInputs == {<<>>, <<"-">>, <<"+", "x">>, <<"7">>, <<"-", "7", "x">>}

(***************************************************************************)
(* The state: two BigInt objects x and y, and call, the record of the last *)
(* call: its name, its arguments, the object it was called on as it was    *)
(* before the call (this) and what it returned.                            *)
(*                                                                         *)
(* Spec is the life of one object x: constructed from a string, then any   *)
(* sequence of the scalar operations (division by zero included), a second *)
(* parse into the object, serialisation and the truth test.                *)
(* A mutating operation is started only on a value within MaxValue, which  *)
(* bounds the model.  A trap ends the life.  y is not used.                *)
(*                                                                         *)
(* SpecBin is two objects x and y constructed from strings, and any        *)
(* sequence of comparisons and multiplications between them.               *)
(***************************************************************************)
\* What scalarDiv (0, rem) can do.  With no limbs the loop body never runs:
\* the call returns with rem = 0.  Otherwise the first step divides the
\* 2W-bit n by (bigInt_t) 0, which is undefined: the builds either raise
\* the hardware trap that ends the process (x86 and the like), or run a
\* division that yields 0 (ARM and the like), where n % 0 is n - 0 * 0 = n
\* and rem ends as the low W bits of the last n, the least-significant limb.
\* Nowhere is anything thrown.
scalarDivByZero(sections) ==
    IF Len(sections) = 0
    THEN {[outcome |-> "return", sections |-> sections, rem |-> 0]}
    ELSE {[outcome |-> "trap", sections |-> sections, rem |-> 0],
          [outcome |-> "return", sections |-> popZeros(Zeros(Len(sections))),
           rem |-> sections[1]]}

\* The process runs until a trap has ended it.
Running == ~(call.op = "scalarDiv(0)" /\ call.outcome = "trap")

Init ==
    \E s \in Strings :
        /\ x = fromString(s)
        /\ y = fromString(<<"0">>)
        /\ call = [op |-> "BigInt", s |-> s]

ScalarAdd(v) ==
    /\ Running
    /\ InRange(x)
    /\ x' = [x EXCEPT !.sections = scalarAdd(@, v)]
    /\ call' = [op |-> "+=", this |-> x, v |-> v]
    /\ UNCHANGED y

ScalarMul(v) ==
    /\ Running
    /\ InRange(x)
    /\ x' = [x EXCEPT !.sections = scalarMul(@, v)]
    /\ call' = [op |-> "*=", this |-> x, v |-> v]
    /\ UNCHANGED y

MultiplyAdd(base, carry) ==
    /\ Running
    /\ InRange(x)
    /\ x' = [x EXCEPT !.sections = multiplyAdd(@, base, carry)]
    /\ call' = [op |-> "multiplyAdd", this |-> x, base |-> base, carry |-> carry]
    /\ UNCHANGED y

\* scalarDiv (d, rem); operator /= (d) is this call with rem dropped.
ScalarDiv(d) ==
    /\ Running
    /\ InRange(x)
    /\ LET q == scalarDiv(x.sections, d)
       IN  /\ x' = [x EXCEPT !.sections = q.sections]
           /\ call' = [op |-> "scalarDiv", this |-> x, d |-> d, rem |-> q.rem]
    /\ UNCHANGED y

\* scalarDiv (0, rem), and operator /= (0).
ScalarDivByZero ==
    /\ Running
    /\ InRange(x)
    /\ \E o \in scalarDivByZero(x.sections) :
          /\ x' = [x EXCEPT !.sections = o.sections]
          /\ call' = [op |-> "scalarDiv(0)", this |-> x, d |-> 0,
                      outcome |-> o.outcome, rem |-> o.rem]
    /\ UNCHANGED y

\* initFromString (s) on the object x: a second parse into an existing object.
InitFromString(s) ==
    /\ Running
    /\ InRange(x)
    /\ LET p == initFromString(x, s)
       IN  /\ x' = p.obj
           /\ call' = [op |-> "initFromString", this |-> x, s |-> s,
                       threw |-> p.threw]
    /\ UNCHANGED y

toString ==
    /\ Running
    /\ call' = [op |-> "toString", this |-> x, str |-> writeString(x)]
    /\ UNCHANGED <<x, y>>

Bool ==
    /\ Running
    /\ call' = [op |-> "bool", this |-> x, ret |-> toBool(x)]
    /\ UNCHANGED <<x, y>>

Next ==
    \/ \E v \in Scalars : ScalarAdd(v)
    \/ \E v \in Scalars : ScalarMul(v)
    \/ \E base \in Scalars, carry \in Scalars : MultiplyAdd(base, carry)
    \/ \E d \in Divisors : ScalarDiv(d)
    \/ ScalarDivByZero
    \/ \E s \in ParseInputs : InitFromString(s)
    \/ toString
    \/ Bool

Spec == Init /\ [][Next]_vars

InitBin ==
    \E s \in Strings, t \in OperandStrings :
        /\ x = fromString(s)
        /\ y = fromString(t)
        /\ call = [op |-> "BigInt", s |-> s]

\* a.cmp(b), for a and b among the two objects.
Cmp(a, b) ==
    /\ call' = [op |-> "cmp", this |-> a, other |-> b, ret |-> cmp(a, b)]
    /\ UNCHANGED <<x, y>>

\* What operator * can leave behind: its result, or, once the carry loop has
\* left the result buffer, any limb sequence of the buffer's length or one more.
MulOutcomes(a, v) ==
    LET m == mul(a, v)
    IN  IF ~m.oob THEN {m}
        ELSE {[m EXCEPT !.r.sections = s] :
                s \in UNION {[1 .. n -> smallInt_t] :
                       n \in {Len(m.r.sections), Len(m.r.sections) + 1}}}

\* x * y
MulXY ==
    \E m \in MulOutcomes(x, y) :
        /\ x' = m.this
        /\ call' = [op |-> "*", this |-> x, other |-> y, r |-> m.r, oob |-> m.oob]
        /\ UNCHANGED y

\* y * x
MulYX ==
    \E m \in MulOutcomes(y, x) :
        /\ y' = m.this
        /\ call' = [op |-> "*", this |-> y, other |-> x, r |-> m.r, oob |-> m.oob]
        /\ UNCHANGED x

\* x * x
MulXX ==
    \E m \in MulOutcomes(x, x) :
        /\ x' = m.this
        /\ call' = [op |-> "*", this |-> x, other |-> x, r |-> m.r, oob |-> m.oob]
        /\ UNCHANGED y

NextBin ==
    \/ Cmp(x, y)
    \/ Cmp(y, x)
    \/ Cmp(x, x)
    \/ MulXY
    \/ MulYX
    \/ MulXX

SpecBin == InitBin /\ [][NextBin]_vars

(***************************************************************************)
(* Helpers of the properties.                                              *)
(***************************************************************************)
Sgn(n) == IF n < 0 THEN -1 ELSE IF n > 0 THEN 1 ELSE 0

SignedValue(obj) == IF obj.sign THEN 0 - Value(obj.sections) ELSE Value(obj.sections)

\* No most-significant zero limb, zero being exactly <<0>>.
Canonical(sections) == sections = ToLimbs(Value(sections))

\* One of the two ways zero is stored.
ZeroLimbs(obj) == obj.sections = <<>> \/ obj.sections = <<0>>

RECURSIVE CarryIn(_, _, _, _)
\* The carry entering limb i of multiplyAdd, on unbounded integers.
CarryIn(sections, base, carry, i) ==
    IF i = 1 THEN carry
    ELSE (sections[i - 1] * base + CarryIn(sections, base, carry, i - 1)) \div WRAP

RECURSIVE MsCompare(_, _, _)
\* Limb-wise comparison of equally long magnitudes from limb i down.
MsCompare(a, b, i) ==
    IF i = 0 THEN 0
    ELSE IF a[i] < b[i] THEN -1
    ELSE IF a[i] > b[i] THEN 1
    ELSE MsCompare(a, b, i - 1)

(***************************************************************************)
(* C1.  Constructing a BigInt from a valid decimal string gives sign =     *)
(* TRUE iff the string starts with "-", and limbs that are the base-2^W    *)
(* digits, least-significant first, of the value of the digit run: no      *)
(* most-significant zero limb, zero stored as <<0>>.                       *)
(***************************************************************************)
C1_ParseLimbs ==
    call.op = "BigInt" =>
        /\ x.sign = (call.s[1] = "-")
        /\ x.sections = ToLimbs(DecValue(DigitRun(call.s)))
        /\ Len(x.sections) >= 1
        /\ (Len(x.sections) > 1 => x.sections[Len(x.sections)] # 0)

\* "-017" parses to sign TRUE and limbs <<1, 1>> (17 = 1 * 2^4 + 1).
C1_Witness ==
    /\ call.op = "BigInt"
    /\ call.s = <<"-", "0", "1", "7">>
    /\ x = BigInt(<<1, 1>>, TRUE)

(***************************************************************************)
(* C2.  Decimal round trip of non-negative values: parsing the             *)
(* serialisation of a non-negative canonical value gives back its sign and *)
(* limbs, and serialising a freshly parsed unsigned or "+" string gives    *)
(* the digit run without its leading zeros ("0" for an all-zero run).      *)
(***************************************************************************)
C2_RoundTrip ==
    /\ (call.op = "toString" /\ ~call.this.sign /\ Canonical(call.this.sections)) =>
          fromString(call.str) = call.this
    /\ (call.op = "BigInt" /\ call.s[1] # "-") =>
          writeString(x) = StripZeros(DigitRun(call.s))

\* <<1, 1>>, parsed from "17", "+17", "017" or "+017", is serialised as "17".
C2_Witness ==
    /\ call.op = "toString"
    /\ call.this = BigInt(<<1, 1>>, FALSE)
    /\ call.str = <<"1", "7">>

(***************************************************************************)
(* C3.  BigInt * BigInt of two non-zero operands returns limbs whose value *)
(* is exactly value(a) * value(b), the carry loop staying inside the       *)
(* result buffer.                                                          *)
(***************************************************************************)
C3_ExactProduct ==
    (call.op = "*" /\ toBool(call.this) /\ toBool(call.other)) =>
        /\ ~call.oob
        /\ Value(call.r.sections)
             = Value(call.this.sections) * Value(call.other.sections)

\* Two limbs MAX times two limbs MAX: (2^(2W) - 1)^2.
C3_Witness ==
    /\ call.op = "*"
    /\ call.this.sections = <<MAX, MAX>>
    /\ call.other.sections = <<MAX, MAX>>
    /\ call.r.sections = <<1, 0, MAX - 1, MAX>>

(***************************************************************************)
(* C4.  multiplyAdd(base, addend) replaces the value v of the limbs by     *)
(* v * base + addend: limb i becomes the low W bits of limb * base + carry *)
(* (which fits 2W bits), the final carry is appended iff it is non-zero or *)
(* the sequence was empty, so an empty value becomes <<addend>>.  += v is  *)
(* multiplyAdd(1, v) and *= v is multiplyAdd(v, 0).                        *)
(***************************************************************************)
C4_MultiplyAdd ==
    /\ call.op = "multiplyAdd" =>
         LET s == call.this.sections
             n == Len(s)
             c(i) == CarryIn(s, call.base, call.carry, i)
         IN  /\ Value(x.sections) = Value(s) * call.base + call.carry
             /\ \A i \in 1 .. n :
                  /\ s[i] * call.base + c(i) < WRAP2
                  /\ x.sections[i] = (s[i] * call.base + c(i)) % WRAP
             /\ Len(x.sections) = IF c(n + 1) # 0 \/ n = 0 THEN n + 1 ELSE n
             /\ Len(x.sections) = n + 1 => x.sections[n + 1] = c(n + 1)
             /\ n = 0 => x.sections = <<call.carry>>
    /\ call.op = "+=" =>
         /\ x.sections = multiplyAdd(call.this.sections, 1, call.v)
         /\ Value(x.sections) = Value(call.this.sections) + call.v
    /\ call.op = "*=" =>
         /\ x.sections = multiplyAdd(call.this.sections, call.v, 0)
         /\ Value(x.sections) = Value(call.this.sections) * call.v

\* <<MAX, MAX>> * MAX + MAX = <<0, 0, MAX>>: every limb at its largest.
C4_Witness ==
    /\ call.op = "multiplyAdd"
    /\ call.this.sections = <<MAX, MAX>>
    /\ call.base = MAX
    /\ call.carry = MAX
    /\ x.sections = <<0, 0, MAX>>

(***************************************************************************)
(* C5.  scalarDiv(d), d # 0, leaves limbs of value q and returns r with    *)
(* q * d + r = the value before, and 0 <= r < d.                           *)
(***************************************************************************)
C5_DivRem ==
    call.op = "scalarDiv" =>
        /\ Value(x.sections) * call.d + call.rem = Value(call.this.sections)
        /\ 0 <= call.rem
        /\ call.rem < call.d

\* <<1, 0, 1>> (2^(2W) + 1) divided by 2: the remainder runs through a zero limb.
C5_Witness ==
    /\ call.op = "scalarDiv"
    /\ call.this.sections = <<1, 0, 1>>
    /\ call.d = 2
    /\ call.rem = 1
    /\ x.sections = <<0, WRAP \div 2>>

(***************************************************************************)
(* C6.  For two non-zero operands of the same sign and the same number of  *)
(* limbs, cmp compares the limbs from the most-significant down; the first *)
(* differing limb decides (-1 smaller, 1 larger, inverted when negative),  *)
(* 0 only when all limbs are equal; its sign is that of value(a)-value(b). *)
(***************************************************************************)
C6_CmpMostSignificantFirst ==
    (/\ call.op = "cmp"
     /\ toBool(call.this) /\ toBool(call.other)
     /\ call.this.sign = call.other.sign
     /\ Len(call.this.sections) = Len(call.other.sections)) =>
        LET m == MsCompare(call.this.sections, call.other.sections,
                           Len(call.this.sections))
        IN  /\ call.ret = IF call.this.sign THEN 0 - m ELSE m
            /\ Sgn(call.ret) = Sgn(SignedValue(call.this) - SignedValue(call.other))

(***************************************************************************)
(* C7.  For two non-zero canonical operands of the same sign and different *)
(* limb counts, cmp returns -2 or 2 and its sign is the numeric order of   *)
(* the signed values, also when both are negative; a <= b holds iff        *)
(* value(a) <= value(b).                                                   *)
(***************************************************************************)
C7_CmpLengthsNumericOrder ==
    (/\ call.op = "cmp"
     /\ toBool(call.this) /\ toBool(call.other)
     /\ Canonical(call.this.sections) /\ Canonical(call.other.sections)
     /\ call.this.sign = call.other.sign
     /\ Len(call.this.sections) # Len(call.other.sections)) =>
        /\ call.ret \in {-2, 2}
        /\ Sgn(call.ret) = Sgn(SignedValue(call.this) - SignedValue(call.other))
        /\ lessEq(call.this, call.other)
             <=> SignedValue(call.this) <= SignedValue(call.other)

(***************************************************************************)
(* C8, as claimed.  When exactly one operand of cmp is zero (limbs <<>> or *)
(* <<0>>), cmp returns -1 if the non-zero operand is negative and 1        *)
(* otherwise, whichever operand is the zero one; both zero gives 0.        *)
(***************************************************************************)
C8_NonZeroSignDecides ==
    call.op = "cmp" =>
        /\ (ZeroLimbs(call.this) /\ ZeroLimbs(call.other)) => call.ret = 0
        /\ (ZeroLimbs(call.this) /\ ~ZeroLimbs(call.other)) =>
              call.ret = IF call.other.sign THEN -1 ELSE 1
        /\ (~ZeroLimbs(call.this) /\ ZeroLimbs(call.other)) =>
              call.ret = IF call.this.sign THEN -1 ELSE 1

(***************************************************************************)
(* C8, amended.  When exactly one operand of a.cmp(b) is zero (limbs <<>>  *)
(* or <<0>>, either sign flag): if b is the zero one, cmp returns -1 if a  *)
(* is negative and 1 otherwise; if a is the zero one, cmp returns 1 if b   *)
(* is negative and -1 otherwise.  Both zero gives 0.                       *)
(***************************************************************************)
C8_ZeroOrdersBySign ==
    call.op = "cmp" =>
        /\ (ZeroLimbs(call.this) /\ ZeroLimbs(call.other)) => call.ret = 0
        /\ (ZeroLimbs(call.this) /\ ~ZeroLimbs(call.other)) =>
              call.ret = IF call.other.sign THEN 1 ELSE -1
        /\ (~ZeroLimbs(call.this) /\ ZeroLimbs(call.other)) =>
              call.ret = IF call.this.sign THEN -1 ELSE 1

\* The empty zero compared with -1: zero is the larger.
C8_Witness ==
    /\ call.op = "cmp"
    /\ call.this.sections = <<>>
    /\ call.other = BigInt(<<1>>, TRUE)
    /\ call.ret = 1

(***************************************************************************)
(* C9.  operator bool is false exactly when the value of the limbs is 0,   *)
(* for every BigInt reached from a parsed value by the scalar operations.  *)
(***************************************************************************)
C9_BoolFalseIffZero ==
    call.op = "bool" => (call.ret = FALSE <=> Value(call.this.sections) = 0)

(***************************************************************************)
(* C10.  Serialisation gives exactly "0" for every zero-valued BigInt,     *)
(* whatever its sign flag, and a leading "-" iff the sign flag is set and  *)
(* the value is non-zero.                                                  *)
(***************************************************************************)
C10_ZeroSerializesUnsigned ==
    call.op = "toString" =>
        /\ Value(call.this.sections) = 0 => call.str = <<"0">>
        /\ call.str[1] = "-" <=> (call.this.sign /\ Value(call.this.sections) # 0)

(***************************************************************************)
(* C11.  The sign of a BigInt * BigInt product is sign_a XOR sign_b: for   *)
(* all non-zero operands the result is negative iff exactly one of the     *)
(* operands is negative.                                                   *)
(***************************************************************************)
C11_ProductSignIsXor ==
    (/\ call.op = "*"
     /\ Value(call.this.sections) # 0
     /\ Value(call.other.sections) # 0) =>
        call.r.sign = (call.this.sign # call.other.sign)

(***************************************************************************)
(* C12.  BigInt * BigInt leaves the limbs and the sign of both operands    *)
(* unchanged, for every pair of operands, a zero operand included: no      *)
(* multiplication step changes either object.                              *)
(***************************************************************************)
C12_MulLeavesOperands ==
    [][call'.op = "*" => (x' = x /\ y' = y)]_vars

(***************************************************************************)
(* C13.  One is the multiplicative identity under operator ==: for every   *)
(* BigInt a, zero or not, (a * BigInt{1}) == a, that is, cmp of the        *)
(* product with a as it was before the multiplication returns 0.           *)
(***************************************************************************)
C13_OneIsIdentity ==
    (call.op = "*" /\ call.other = BigInt(<<1>>, FALSE)) =>
        /\ cmp(call.r, call.this) = 0
        /\ equals(call.r, call.this)

(***************************************************************************)
(* C14.  Scalar division by zero fails with a DivideByZero error for every *)
(* BigInt: the call neither returns a quotient and a remainder nor ends    *)
(* the process, and the object keeps its limbs.                            *)
(***************************************************************************)
C14_DivideByZeroFails ==
    call.op = "scalarDiv(0)" =>
        /\ call.outcome = "DivideByZero"
        /\ x = call.this

\* The first character of s after its optional sign (NUL at the end of s).
FirstAfterSign(s) ==
    IF CharAt(s, 1) = "-" \/ CharAt(s, 1) = "+" THEN CharAt(s, 2) ELSE CharAt(s, 1)

(***************************************************************************)
(* C15.  A parse fails exactly when the first character after the optional *)
(* sign is not a decimal digit (the empty string and a bare sign           *)
(* included), and a failed initFromString on an existing BigInt leaves the *)
(* object's limbs and sign as they were before the call.                   *)
(***************************************************************************)
C15_FailedParseKeepsObject ==
    call.op = "initFromString" =>
        /\ call.threw <=> ~IsDigit(FirstAfterSign(call.s))
        /\ call.threw => x = call.this

\* The representation invariant: no most-significant zero limb, except that
\* zero is stored as <<>> or <<0>>.
NoTopZeroLimb(sections) ==
    \/ sections = <<>>
    \/ sections = <<0>>
    \/ sections[Len(sections)] # 0

(***************************************************************************)
(* C16.  The representation invariant under the scalar mutators: a scalar  *)
(* += v, *= v (v possibly 0) or /= d (d # 0) on limbs without a            *)
(* most-significant zero limb (zero stored as <<>> or <<0>>), as every     *)
(* parsed value has them, leaves limbs without a most-significant zero     *)
(* limb, zero stored as <<>> or <<0>>.                                     *)
(***************************************************************************)
C16_MutatorsKeepNoTopZeroLimb ==
    (/\ call.op \in {"+=", "*=", "scalarDiv"}
     /\ NoTopZeroLimb(call.this.sections)) =>
        NoTopZeroLimb(x.sections)

(***************************************************************************)
(* C17.  The result of BigInt * BigInt is normalized for all operands: its *)
(* most-significant zero limbs are trimmed (the top limb of a non-zero     *)
(* product is non-zero) and it never has fewer than one limb (a zero       *)
(* product is <<0>>).                                                      *)
(***************************************************************************)
C17_ProductNormalized ==
    call.op = "*" =>
        /\ Len(call.r.sections) >= 1
        /\ Value(call.r.sections) = 0 => call.r.sections = <<0>>
        /\ Value(call.r.sections) # 0 => call.r.sections[Len(call.r.sections)] # 0

C19_CarryStaysInBuffer ==
    (call.op = "*" /\ toBool(call.this) /\ toBool(call.other)) =>
        LET mn == Len(call.this.sections) + Len(call.other.sections)
        IN  /\ call.oob = FALSE
            /\ Len(call.r.sections) = mn
            /\ Value(call.this.sections) * Value(call.other.sections) < Pow(WRAP, mn)

\* <<MAX, MAX>> times <<MAX>>: the carry of the last step ripples into the
\* top limb of the three, and stops there.
C19_Witness ==
    /\ call.op = "*"
    /\ call.this.sections = <<MAX, MAX>>
    /\ call.other.sections = <<MAX>>
    /\ call.oob = FALSE
    /\ call.r.sections = <<1, MAX, MAX - 1>>

=============================================================================
